---- MODULE Spec2Model ----
(***************************************************************************)
(* devNav: the token-based URL construction core (src/src/core/parser.ts)  *)
(* and the helpers it calls (src/src/utils/helpers.ts, utils/constants).   *)
(*                                                                         *)
(* A JavaScript string is modelled as the sequence of its characters, each *)
(* character a one-character TLA+ string, so that trim, the regular        *)
(* expressions, split and the slash handling are computed character by     *)
(* character as the code computes them.  The character U+2192 (the arrow   *)
(* of the description) is written "U+2192".                                *)
(***************************************************************************)
EXTENDS Naturals, Sequences, FiniteSets, TLC

VARIABLES input, config, parsed, constructed, pc,
          variant, parsedVariant, format,
          suggested, navigated,
          stored, defaultConfig, calls, completed, budget

\* What the omnibox handlers of the background script hand to the browser.
omniboxVars == <<suggested, navigated>>

\* chrome.storage.sync, the DEFAULT_CONFIG object and the StorageManager
\* calls in progress.
storageVars == <<stored, defaultConfig, calls, completed, budget>>

vars == <<input, config, parsed, constructed, pc,
          variant, parsedVariant, format, omniboxVars, storageVars>>

(***************************************************************************)
(* Bounds of the explored inputs.                                          *)
(***************************************************************************)
MaxWords == 3

(***************************************************************************)
(* JavaScript values and string primitives.                                *)
(***************************************************************************)

\* The value `undefined` (what reading a missing property yields).  It is a
\* one-element tuple whose element is no character, so it equals no string.
Undefined == <<"undefined">>

\* The characters matched by \s (and stripped by String.prototype.trim) that
\* occur in the explored inputs: space, tab and newline.
IsWhitespace(c) == c \in {" ", "\t", "\n"}

RECURSIVE trimStart(_)
trimStart(s) ==
  IF s # <<>> /\ IsWhitespace(Head(s)) THEN trimStart(Tail(s)) ELSE s

RECURSIVE trimEnd(_)
trimEnd(s) ==
  IF s # <<>> /\ IsWhitespace(s[Len(s)])
  THEN trimEnd(SubSeq(s, 1, Len(s) - 1))
  ELSE s

\* String.prototype.trim
trim(s) == trimEnd(trimStart(s))

\* Variant of collapseWhitespace that collapses runs of spaces only.
RECURSIVE collapseSpaces(_)
collapseSpaces(s) ==
  IF s = <<>> THEN <<>>
  ELSE IF Head(s) = " "
       THEN IF Tail(s) # <<>> /\ Head(Tail(s)) = " "
            THEN collapseSpaces(Tail(s))
            ELSE <<" ">> \o collapseSpaces(Tail(s))
       ELSE <<Head(s)>> \o collapseSpaces(Tail(s))

\* .replace(/\s+/g, ' ')
RECURSIVE collapseWhitespace(_)
collapseWhitespace(s) ==
  IF s = <<>> THEN <<>>
  ELSE IF IsWhitespace(Head(s))
       THEN <<" ">> \o collapseWhitespace(trimStart(Tail(s)))
       ELSE <<Head(s)>> \o collapseWhitespace(Tail(s))

\* Variant of stripLegacyPrefix that leaves the marker in place.
keepLegacyPrefix(s) == s

\* .replace(/^@/, '')
stripLegacyPrefix(s) ==
  IF s # <<>> /\ Head(s) = "@" THEN Tail(s) ELSE s

\* URLParser.normalizeInput
normalizeInput(s) == stripLegacyPrefix(collapseWhitespace(trim(s)))

\* String.prototype.startsWith
startsWith(s, prefix) ==
  /\ Len(s) >= Len(prefix)
  /\ SubSeq(s, 1, Len(prefix)) = prefix

\* String.prototype.split with a one-character separator: '' splits to [''].
RECURSIVE split(_, _)
split(s, sep) ==
  IF \E i \in 1..Len(s) : s[i] = sep
  THEN LET i == CHOOSE k \in 1..Len(s) :
                  s[k] = sep /\ \A j \in 1..(k - 1) : s[j] # sep
       IN <<SubSeq(s, 1, i - 1)>> \o split(SubSeq(s, i + 1, Len(s)), sep)
  ELSE <<s>>

\* Array.prototype.join
RECURSIVE join(_, _)
join(parts, sep) ==
  IF parts = <<>> THEN <<>>
  ELSE IF Len(parts) = 1 THEN parts[1]
  ELSE parts[1] \o sep \o join(Tail(parts), sep)

\* .replace(/\/+$/, '')
RECURSIVE stripTrailingSlashes(_)
stripTrailingSlashes(s) ==
  IF s # <<>> /\ s[Len(s)] = "/"
  THEN stripTrailingSlashes(SubSeq(s, 1, Len(s) - 1))
  ELSE s

\* .replace(/^\/+/, '')
RECURSIVE stripLeadingSlashes(_)
stripLeadingSlashes(s) ==
  IF s # <<>> /\ Head(s) = "/" THEN stripLeadingSlashes(Tail(s)) ELSE s

HttpPrefix == <<"h","t","t","p",":","/","/">>
HttpsPrefix == <<"h","t","t","p","s",":","/","/">>

\* value.startsWith('http://') || value.startsWith('https://')
looksLikeBaseUrl(value) ==
  startsWith(value, HttpPrefix) \/ startsWith(value, HttpsPrefix)

(***************************************************************************)
(* The configuration.  config.tokens is a plain JavaScript object: its own  *)
(* properties are kept in insertion order as a sequence of entries, and a  *)
(* property read that finds no own property continues on Object.prototype. *)
(***************************************************************************)

\* Names of Object.prototype properties (all of them functions) that a
\* segment can spell.
ObjectPrototypeKeys ==
  { <<"c","o","n","s","t","r","u","c","t","o","r">>,
    <<"t","o","S","t","r","i","n","g">>,
    <<"v","a","l","u","e","O","f">> }

hasOwnKey(tokens, key) == \E i \in 1..Len(tokens) : tokens[i].key = key

ownValue(tokens, key) ==
  tokens[CHOOSE i \in 1..Len(tokens) : tokens[i].key = key].value

\* config.tokens[segment]: "own" is a Token {value}, "inherited" is a
\* function of Object.prototype (truthy, and without a `value` property),
\* "undefined" is a missing property.
configToken(tokens, segment) ==
  IF hasOwnKey(tokens, segment)
  THEN [kind |-> "own", value |-> ownValue(tokens, segment)]
  ELSE IF segment \in ObjectPrototypeKeys
       THEN [kind |-> "inherited", value |-> Undefined]
       ELSE [kind |-> "undefined", value |-> Undefined]

(***************************************************************************)
(* URLParser.parse                                                          *)
(***************************************************************************)

\* createValidationError(field, message, code)
createValidationError(field, message, code) ==
  [field |-> field, message |-> message, code |-> code]

MsgInputEmpty ==
  <<"I","n","p","u","t"," ","c","a","n","n","o","t"," ","b","e"," ",
    "e","m","p","t","y">>
MsgInvalidFormat ==
  <<"I","n","v","a","l","i","d"," ","i","n","p","u","t"," ",
    "f","o","r","m","a","t">>
MsgNoBaseUrl ==
  <<"N","o"," ","b","a","s","e"," ","U","R","L"," ","f","o","u","n","d"," ",
    "i","n"," ","t","o","k","e","n","s",".">>
MsgNoTokens ==
  <<"N","o"," ","t","o","k","e","n","s"," ","f","o","u","n","d"," ",
    "i","n"," ","i","n","p","u","t",".">>

\* The early return of parse for a blank trimmed input.
emptyInputResult(originalInput) ==
  [tokens |-> <<>>, isValid |-> FALSE,
   errors |-> <<createValidationError("input", MsgInputEmpty, "EMPTY_INPUT")>>,
   originalInput |-> originalInput, exception |-> "none"]

\* Variant of noSegmentsResult that also reports the missing base.
noSegmentsResultTwoErrors(originalInput) ==
  [tokens |-> <<>>, isValid |-> FALSE,
   errors |-> <<createValidationError("input", MsgInvalidFormat,
                                      "INVALID_FORMAT"),
                createValidationError("tokens", MsgNoBaseUrl,
                                      "MISSING_BASE")>>,
   originalInput |-> originalInput, exception |-> "none"]

\* The early return of parse when no segment is left.
noSegmentsResult(originalInput) ==
  [tokens |-> <<>>, isValid |-> FALSE,
   errors |-> <<createValidationError("input", MsgInvalidFormat,
                                      "INVALID_FORMAT")>>,
   originalInput |-> originalInput, exception |-> "none"]

\* Variant of segmentsOf that forgets the filter of empty segments.
segmentsOfUnfiltered(normalizedInput) == split(normalizedInput, " ")

\* normalizedInput.split(' ').filter(segment => segment.length > 0)
segmentsOf(normalizedInput) ==
  SelectSeq(split(normalizedInput, " "), LAMBDA segment : Len(segment) > 0)

\* The callback of segments.map: one token per segment.
resolveSegment(segment, tokens) ==
  LET ct == configToken(tokens, segment)
  IN IF ct.kind # "undefined"
     THEN [key |-> segment, value |-> ct.value, isResolved |-> TRUE]
     ELSE [key |-> segment, value |-> segment, isResolved |-> FALSE]

\* Variant of resolveSegments that keeps only the segments found in the
\* configuration.
resolveSegmentsKnownOnly(segments, tokens) ==
  LET known == SelectSeq(segments,
                         LAMBDA g : configToken(tokens, g).kind # "undefined")
  IN [i \in 1..Len(known) |-> resolveSegment(known[i], tokens)]

resolveSegments(segments, tokens) ==
  [i \in 1..Len(segments) |-> resolveSegment(segments[i], tokens)]

\* Variant of hasBaseUrl that is satisfied by any resolved token.
hasResolvedToken(tokens) ==
  IF \E i \in 1..Len(tokens) : tokens[i].isResolved THEN "true" ELSE "false"

\* tokens.some(token => token.isResolved && (token.value.startsWith(...)
\* || ...)), evaluated left to right: "true", "false", or "TypeError" when
\* startsWith is read from an undefined value before a base URL is found.
RECURSIVE hasBaseUrl(_)
hasBaseUrl(tokens) ==
  IF tokens = <<>> THEN "false"
  ELSE LET token == Head(tokens)
       IN IF ~token.isResolved THEN hasBaseUrl(Tail(tokens))
          ELSE IF token.value = Undefined THEN "TypeError"
          ELSE IF looksLikeBaseUrl(token.value) THEN "true"
          ELSE hasBaseUrl(Tail(tokens))

\* The part of parse after the segments are known to be non-empty.
parseSegments(segments, originalInput, cfg) ==
  LET tokens == resolveSegments(segments, cfg.tokens)
      some == hasBaseUrl(tokens)
      errors ==
        IF Len(tokens) > 0
        THEN IF some = "false"
             THEN <<createValidationError("tokens", MsgNoBaseUrl,
                                          "MISSING_BASE")>>
             ELSE <<>>
        ELSE <<createValidationError("tokens", MsgNoTokens, "EMPTY_INPUT")>>
  IN IF Len(tokens) > 0 /\ some = "TypeError"
     THEN [tokens |-> <<>>, isValid |-> FALSE, errors |-> <<>>,
           originalInput |-> originalInput, exception |-> "TypeError"]
     ELSE [tokens |-> tokens, isValid |-> (Len(errors) = 0),
           errors |-> errors, originalInput |-> originalInput,
           exception |-> "none"]

\* Variant of parse that keeps the input as given in originalInput.
parseKeepingRawInput(in, cfg) ==
  IF trim(in) = <<>> THEN emptyInputResult(in)
  ELSE LET segments == segmentsOf(normalizeInput(in))
       IN IF Len(segments) = 0 THEN noSegmentsResult(in)
          ELSE parseSegments(segments, in, cfg)

\* Variant of parse without the early return for a blank input.
parseWithoutEarlyReturn(in, cfg) ==
  LET originalInput == trim(in)
      segments == segmentsOf(normalizeInput(originalInput))
  IN IF Len(segments) = 0 THEN noSegmentsResult(originalInput)
     ELSE parseSegments(segments, originalInput, cfg)

\* URLParser.parse(input, config)
parse(in, cfg) ==
  LET originalInput == trim(in)
  IN IF originalInput = <<>> THEN emptyInputResult(originalInput)
     ELSE LET segments == segmentsOf(normalizeInput(originalInput))
          IN IF Len(segments) = 0 THEN noSegmentsResult(originalInput)
             ELSE parseSegments(segments, originalInput, cfg)

(***************************************************************************)
(* URLParser.isValidFormat                                                 *)
(***************************************************************************)

\* The characters of the class [a-zA-Z0-9-].
TokenKeyChars ==
  { "a","b","c","d","e","f","g","h","i","j","k","l","m",
    "n","o","p","q","r","s","t","u","v","w","x","y","z",
    "A","B","C","D","E","F","G","H","I","J","K","L","M",
    "N","O","P","Q","R","S","T","U","V","W","X","Y","Z",
    "0","1","2","3","4","5","6","7","8","9","-" }

\* /^[a-zA-Z0-9-]+$/.test(segment)
matchesTokenKey(segment) ==
  /\ Len(segment) > 0
  /\ \A i \in 1..Len(segment) : segment[i] \in TokenKeyChars

\* Variant of isValidFormat that asks for one well-formed segment only.
isValidFormatSome(in) ==
  LET segments == segmentsOf(normalizeInput(in))
  IN \E i \in 1..Len(segments) : matchesTokenKey(segments[i])

\* URLParser.isValidFormat(input)
isValidFormat(in) ==
  LET normalized == normalizeInput(in)
  IN IF normalized = <<>> THEN FALSE
     ELSE LET segments == segmentsOf(normalized)
          IN IF Len(segments) = 0 THEN FALSE
             ELSE \A i \in 1..Len(segments) :
                    Len(segments[i]) > 0 /\ matchesTokenKey(segments[i])

(***************************************************************************)
(* isValidUrl (utils/helpers.ts) and URL_PATTERNS.VALID_URL                 *)
(***************************************************************************)

\* The characters of s that are not ASCII tab (the URL parser removes tabs
\* and newlines from its input before parsing).
withoutTabs(s) == SelectSeq(s, LAMBDA c : c # "\t")

RECURSIVE trimSpaces(_)
trimSpaces(s) ==
  IF s # <<>> /\ Head(s) = " " THEN trimSpaces(Tail(s))
  ELSE IF s # <<>> /\ s[Len(s)] = " "
       THEN trimSpaces(SubSeq(s, 1, Len(s) - 1))
       ELSE s

\* The host of an http(s) URL string: what follows the scheme and any
\* further slashes, up to the next slash.
hostOf(afterScheme) == Head(split(stripLeadingSlashes(afterScheme), "/"))

\* Whether `new URL(url)` returns instead of throwing, for the strings over
\* the explored characters (letters, digits, '.', '/', ':', '@', space,
\* tab) that carry an http(s) scheme: the parser strips outer spaces,
\* removes tabs, skips the slashes after the scheme, and fails on an empty
\* host or on a host that holds a space.  A string without a scheme has no
\* base to resolve against and fails.
urlParses(url) ==
  LET s == withoutTabs(trimSpaces(url))
      afterScheme ==
        IF startsWith(s, HttpsPrefix) THEN SubSeq(s, Len(HttpsPrefix) + 1, Len(s))
        ELSE SubSeq(s, Len(HttpPrefix) + 1, Len(s))
      host == hostOf(afterScheme)
  IN /\ looksLikeBaseUrl(s)
     /\ host # <<>>
     /\ \A i \in 1..Len(host) : host[i] # " "

\* URL_PATTERNS.VALID_URL.test(url):  /^https?:\/\/[^\s$.?#].[^\s]*$/i
matchesValidUrl(url) ==
  LET rest ==
        IF startsWith(url, HttpsPrefix)
        THEN SubSeq(url, Len(HttpsPrefix) + 1, Len(url))
        ELSE SubSeq(url, Len(HttpPrefix) + 1, Len(url))
  IN /\ looksLikeBaseUrl(url)
     /\ Len(rest) >= 2
     /\ ~IsWhitespace(rest[1])
     /\ rest[1] \notin {"$", ".", "?", "#"}
     /\ \A i \in 3..Len(rest) : ~IsWhitespace(rest[i])

\* isValidUrl(url)
isValidUrl(url) == urlParses(url) /\ matchesValidUrl(url)

(***************************************************************************)
(* URLParser.buildFinalUrl and URLParser.construct                          *)
(***************************************************************************)

\* restParts.map(part => part.replace(/^\/+/, ''))
cleanRestParts(restParts) ==
  [i \in 1..Len(restParts) |-> stripLeadingSlashes(restParts[i])]

\* buildFinalUrl throws a TypeError when it calls replace on a rest part
\* that is undefined.
buildFinalUrlThrows(parts) ==
  \E i \in 2..Len(parts) : parts[i] = Undefined

\* Variant of buildFinalUrl without the early return for a lone base and
\* without the test for an empty path.
buildFinalUrlAlwaysJoined(parts) ==
  IF Len(parts) = 0 THEN <<>>
  ELSE stripTrailingSlashes(Head(parts)) \o <<"/">> \o
       join(cleanRestParts(Tail(parts)), <<"/">>)

\* URLParser.buildFinalUrl(parts), when it returns
buildFinalUrl(parts) ==
  IF Len(parts) = 0 THEN <<>>
  ELSE LET baseUrl == Head(parts)
           restParts == Tail(parts)
       IN IF Len(restParts) = 0 THEN baseUrl
          ELSE LET cleanBase == stripTrailingSlashes(baseUrl)
                   pathPart == join(cleanRestParts(restParts), <<"/">>)
               IN IF pathPart # <<>>
                  THEN cleanBase \o <<"/">> \o pathPart
                  ELSE cleanBase

\* Variant of findBaseToken that takes the last URL-valued token (findLast
\* in place of find).
findLastBaseToken(tokens, i) ==
  IF \E k \in i..Len(tokens) : tokens[k].value = Undefined
  THEN [outcome |-> "TypeError", index |-> 0]
  ELSE IF \E k \in i..Len(tokens) : looksLikeBaseUrl(tokens[k].value)
       THEN [outcome |-> "found",
             index |-> CHOOSE k \in i..Len(tokens) :
                         /\ looksLikeBaseUrl(tokens[k].value)
                         /\ \A j \in (k + 1)..Len(tokens) :
                              ~looksLikeBaseUrl(tokens[j].value)]
       ELSE [outcome |-> "none", index |-> 0]

\* parsed.tokens.find(token => token.value.startsWith('http://') || ...),
\* from index i on: the index found, none, or the TypeError of reading
\* startsWith from an undefined value.
RECURSIVE findBaseToken(_, _)
findBaseToken(tokens, i) ==
  IF i > Len(tokens) THEN [outcome |-> "none", index |-> 0]
  ELSE IF tokens[i].value = Undefined
       THEN [outcome |-> "TypeError", index |-> i]
       ELSE IF looksLikeBaseUrl(tokens[i].value)
            THEN [outcome |-> "found", index |-> i]
            ELSE findBaseToken(tokens, i + 1)

\* Variant of otherIndices that compares the tokens by content.
otherIndicesByContent(tokens, baseIndex) ==
  SelectSeq([i \in 1..Len(tokens) |-> i],
            LAMBDA i : tokens[i] # tokens[baseIndex])

\* The tokens other than the base, in order.  The code compares object
\* references (token !== baseToken); every token is a distinct object made
\* by segments.map, so the reference is the position.
otherIndices(tokens, baseIndex) ==
  SelectSeq([i \in 1..Len(tokens) |-> i], LAMBDA i : i # baseIndex)

\* urlParts: the base value, then every other token's value.
urlPartsOf(tokens, baseIndex) ==
  LET others == otherIndices(tokens, baseIndex)
  IN <<tokens[baseIndex].value>> \o
     [k \in 1..Len(others) |-> tokens[others[k]].value]

MsgInvalidInput ==
  <<"I","n","v","a","l","i","d"," ","i","n","p","u","t">>
MsgNoBaseToken ==
  <<"N","o"," ","b","a","s","e"," ","U","R","L"," ","t","o","k","e","n"," ",
    "f","o","u","n","d",".">>
MsgInvalidUrl ==
  <<"I","n","v","a","l","i","d"," ","U","R","L"," ",
    "c","o","n","s","t","r","u","c","t","e","d">>
NavigateTo == <<"N","a","v","i","g","a","t","e"," ","t","o",":"," ">>
Arrow == <<" ","U+2192"," ">>

\* Variant of errorMessageOf that reports the first message only.
errorMessageOfFirst(errors) ==
  IF Len(errors) > 0 THEN errors[1].message ELSE MsgInvalidInput

\* parsed.errors.map(e => e.message).join('; ') || 'Invalid input'
errorMessageOf(errors) ==
  LET joined == join([i \in 1..Len(errors) |-> errors[i].message],
                     <<";", " ">>)
  IN IF joined # <<>> THEN joined ELSE MsgInvalidInput

\* Variant of descriptionOf that lists the keys in the order of the URL
\* parts, the base first.
descriptionBaseFirst(tokens) ==
  LET b == findBaseToken(tokens, 1).index
      others == otherIndices(tokens, b)
  IN NavigateTo \o
     join(<<tokens[b].key>> \o [k \in 1..Len(others) |-> tokens[others[k]].key],
          Arrow)

\* `Navigate to: ${tokenKeys.join(' -> ')}`
descriptionOf(tokens) ==
  NavigateTo \o join([i \in 1..Len(tokens) |-> tokens[i].key], Arrow)

constructThrows ==
  [url |-> <<>>, description |-> <<>>, isValid |-> FALSE,
   content |-> <<>>, exception |-> "TypeError"]

\* The part of construct after a base token was found at baseIndex.
constructFromBase(p, baseIndex) ==
  LET urlParts == urlPartsOf(p.tokens, baseIndex)
      finalUrl == buildFinalUrl(urlParts)
  IN IF buildFinalUrlThrows(urlParts) THEN constructThrows
     ELSE IF ~isValidUrl(finalUrl)
          THEN [url |-> finalUrl, description |-> MsgInvalidUrl,
                isValid |-> FALSE, content |-> p.originalInput,
                exception |-> "none"]
          ELSE [url |-> finalUrl, description |-> descriptionOf(p.tokens),
                isValid |-> TRUE, content |-> finalUrl,
                exception |-> "none"]

\* Variant of construct that reads the values of the tokens again from the
\* mapping it is given.
constructResolvingAgain(p, cfg) ==
  LET q == [p EXCEPT !.tokens =
                resolveSegments([i \in 1..Len(p.tokens) |-> p.tokens[i].key],
                                cfg.tokens)]
  IN IF ~q.isValid \/ Len(q.tokens) = 0
     THEN [url |-> <<>>, description |-> errorMessageOf(q.errors),
           isValid |-> FALSE, content |-> q.originalInput,
           exception |-> "none"]
     ELSE LET baseToken == findBaseToken(q.tokens, 1)
          IN IF baseToken.outcome = "TypeError" THEN constructThrows
             ELSE IF baseToken.outcome = "none"
                  THEN [url |-> <<>>, description |-> MsgNoBaseToken,
                        isValid |-> FALSE, content |-> q.originalInput,
                        exception |-> "none"]
                  ELSE constructFromBase(q, baseToken.index)

\* URLParser.construct(parsed, _config)
construct(p, cfg) ==
  IF ~p.isValid \/ Len(p.tokens) = 0
  THEN [url |-> <<>>, description |-> errorMessageOf(p.errors),
        isValid |-> FALSE, content |-> p.originalInput,
        exception |-> "none"]
  ELSE LET baseToken == findBaseToken(p.tokens, 1)
       IN IF baseToken.outcome = "TypeError" THEN constructThrows
          ELSE IF baseToken.outcome = "none"
               THEN [url |-> <<>>, description |-> MsgNoBaseToken,
                     isValid |-> FALSE, content |-> p.originalInput,
                     exception |-> "none"]
               ELSE constructFromBase(p, baseToken.index)

(***************************************************************************)
(* The explored inputs and configurations.                                  *)
(***************************************************************************)

\* Words a user types: two configured keys, a free segment, a segment that
\* spells a property of Object.prototype, and a segment that is itself a URL.
WordDev == <<"d","e","v">>
WordApi == <<"a","p","i">>
WordX == <<"x">>
WordConstructor == <<"c","o","n","s","t","r","u","c","t","o","r">>
WordUrl == <<"h","t","t","p",":","/","/","b",".","i","o">>

Words == {WordDev, WordApi, WordX, WordConstructor, WordUrl}

\* What separates two words, and what surrounds the words (leading text,
\* trailing text): whitespace runs and the legacy '@' marker.
Separators == { <<" ">>, <<" ", "\t">> }
Wrappers ==
  { <<<<>>, <<>>>>,
    <<<<" ">>, <<"\t">>>>,
    <<<<"@">>, <<>>>>,
    <<<<"@", " ">>, <<>>>>,
    <<<<" ", "@">>, <<" ">>>> }

WordLists == UNION { [1..n -> Words] : n \in 0..MaxWords }

Inputs ==
  { w[1] \o join(ws, sep) \o w[2] :
      w \in Wrappers, ws \in WordLists, sep \in Separators }

Token(key, value) == [key |-> key, value |-> value]

\* The configurations: the shape of the test suite's mapping (a base and a
\* path), the same with slashes around the values, one whose path value
\* holds a space, and one whose base value holds a tab inside its host.
ConfigPlain ==
  [tokens |->
     << Token(WordDev, <<"h","t","t","p","s",":","/","/","a",".","i","o">>),
        Token(WordApi, <<"a","p","i","/","v","1">>) >>]
ConfigSlashes ==
  [tokens |->
     << Token(WordDev, <<"h","t","t","p","s",":","/","/","a",".","i","o","/">>),
        Token(WordApi, <<"/","a","p","i","/">>) >>]
ConfigSpace ==
  [tokens |->
     << Token(WordDev, <<"h","t","t","p",":","/","/","a",".","i","o">>),
        Token(WordApi, <<"a"," ","b">>) >>]

ConfigTab ==
  [tokens |->
     << Token(WordDev,
              <<"h","t","t","p","s",":","/","/","a","\t","b",".","i","o">>),
        Token(WordApi, <<"a","p","i","/","v","1">>) >>]

\* DEFAULT_CONFIG: no tokens, the default settings.
DefaultSettings ==
  [trigger |-> ">", defaultDisposition |-> "currentTab",
   showDescriptions |-> TRUE]
DefaultConfig ==
  [tokens |-> <<>>, settings |-> DefaultSettings, version |-> "1.0.0"]

Configs == {ConfigPlain, ConfigSlashes, ConfigSpace, ConfigTab}

(***************************************************************************)
(* The pipeline parse -> construct as a state machine.                      *)
(***************************************************************************)

NoParsed ==
  [tokens |-> <<>>, isValid |-> FALSE, errors |-> <<>>,
   originalInput |-> <<>>, exception |-> "none"]
NoConstructed ==
  [url |-> <<>>, description |-> <<>>, isValid |-> FALSE,
   content |-> <<>>, exception |-> "none"]

\* No suggest call and no navigation has been made.
NotSuggested == <<"not suggested">>
OmniboxUnused ==
  /\ suggested = NotSuggested
  /\ navigated = <<>>

\* Nothing is stored and no StorageManager call is made.
Absent == [absent |-> TRUE]
StorageUnused ==
  /\ stored = Absent
  /\ defaultConfig = DefaultConfig
  /\ calls = <<>>
  /\ completed = <<>>
  /\ budget = 0

Init ==
  /\ input \in Inputs
  /\ config \in Configs
  /\ parsed = NoParsed
  /\ constructed = NoConstructed
  /\ pc = "start"
  /\ variant = <<>>
  /\ parsedVariant = NoParsed
  /\ format = "unchecked"
  /\ OmniboxUnused
  /\ StorageUnused

\* const parsed = parser.parse(text, config)
Parse ==
  /\ pc = "start"
  /\ parsed' = parse(input, config)
  /\ pc' = IF parsed'.exception = "none" THEN "parsed" ELSE "parseThrew"
  /\ UNCHANGED <<input, config, constructed, variant, parsedVariant, format,
                 omniboxVars, storageVars>>

\* const constructed = parser.construct(parsed, config)
Construct ==
  /\ pc = "parsed"
  /\ constructed' = construct(parsed, config)
  /\ pc' = IF constructed'.exception = "none"
           THEN "constructed" ELSE "constructThrew"
  /\ UNCHANGED <<input, config, parsed, variant, parsedVariant, format,
                 omniboxVars, storageVars>>

Next == Parse \/ Construct

Spec == Init /\ [][Next]_vars

(***************************************************************************)
(* The omnibox handlers of the background script (src/background.ts).      *)
(***************************************************************************)

\* The characters encodeURIComponent leaves as they are.
UriUnreservedChars ==
  TokenKeyChars \cup {"_", ".", "!", "~", "*", "'", "(", ")"}

\* The percent code of a character of the explored inputs that
\* encodeURIComponent escapes.
percentCode(c) ==
  CASE c = " " -> <<"%", "2", "0">>
    [] c = "\t" -> <<"%", "0", "9">>
    [] c = "\n" -> <<"%", "0", "A">>
    [] c = "@" -> <<"%", "4", "0">>
    [] c = ":" -> <<"%", "3", "A">>
    [] c = "/" -> <<"%", "2", "F">>

RECURSIVE encodeURIComponent(_)
encodeURIComponent(s) ==
  IF s = <<>> THEN <<>>
  ELSE (IF Head(s) \in UriUnreservedChars THEN <<Head(s)>>
        ELSE percentCode(Head(s)))
       \o encodeURIComponent(Tail(s))

SearchPrefix ==
  <<"h","t","t","p","s",":","/","/","w","w","w",".","g","o","o","g","l","e",
    ".","c","o","m","/","s","e","a","r","c","h","?","q","=">>

\* `https://www.google.com/search?q=${encodeURIComponent(text)}`
searchUrl(text) == SearchPrefix \o encodeURIComponent(text)

\* validateSuggestionContent(content, fallback)
validateSuggestionContent(content, fallback) ==
  IF content = <<>> \/ trim(content) = <<>> THEN fallback ELSE trim(content)

\* constructed.content || constructed.url
contentOrUrl(c) == IF c.content # <<>> THEN c.content ELSE c.url

\* token.type === wanted, for a token that may have no type property.
hasType(token, wanted) ==
  IF "type" \in DOMAIN token THEN token.type = wanted ELSE FALSE

\* The body of availablePaths.forEach: the suggestions for the path keys
\* from position i on.  A throw of parse or construct leaves the loop,
\* which is reported as "TypeError".
RECURSIVE partialSuggestionsFrom(_, _, _, _)
partialSuggestionsFrom(text, availablePaths, i, cfg) ==
  IF i > Len(availablePaths) THEN [outcome |-> "none", list |-> <<>>]
  ELSE LET suggestionText == text \o <<" ">> \o availablePaths[i].key
           testParsed == parse(suggestionText, cfg)
           testConstructed == construct(testParsed, cfg)
           rest == partialSuggestionsFrom(text, availablePaths, i + 1, cfg)
       IN IF testParsed.exception # "none"
             \/ testConstructed.exception # "none"
          THEN [outcome |-> "TypeError", list |-> <<>>]
          ELSE IF testConstructed.isValid
               THEN [rest EXCEPT !.list =
                       << [content |->
                             validateSuggestionContent(
                               contentOrUrl(testConstructed), suggestionText),
                           description |-> testConstructed.url] >> \o @]
               ELSE rest

\* generatePartialSuggestions(text, parsed)
generatePartialSuggestions(text, p, cfg) ==
  LET hasBaseToken ==
        \E i \in 1..Len(p.tokens) : hasType(p.tokens[i], "base")
      pathTokens == SelectSeq(cfg.tokens, LAMBDA t : hasType(t, "path"))
  IN IF hasBaseToken /\ Len(pathTokens) > 0
     THEN partialSuggestionsFrom(
            text, SubSeq(pathTokens, 1, IF Len(pathTokens) < 3
                                        THEN Len(pathTokens) ELSE 3),
            1, cfg)
     ELSE [outcome |-> "none", list |-> <<>>]

\* suggestions.filter(s => s.content && ... s.content.trim().length > 0)
validSuggestions(suggestions) ==
  SelectSeq(suggestions, LAMBDA g : trim(g.content) # <<>>)

\* What handleInputChanged passes to suggest, with the values of its locals
\* parsed and constructed.
inputChanged(text, cfg) ==
  IF ~isValidFormat(text)
  THEN [suggest |-> <<>>, parsed |-> NoParsed, constructed |-> NoConstructed]
  ELSE LET p == parse(text, cfg)
       IN IF p.exception # "none"
          THEN [suggest |-> <<>>, parsed |-> p, constructed |-> NoConstructed]
          ELSE LET c == construct(p, cfg)
               IN IF c.exception # "none"
                  THEN [suggest |-> <<>>, parsed |-> p, constructed |-> c]
                  ELSE IF ~c.isValid
                  THEN [suggest |-> <<>>, parsed |-> p, constructed |-> c]
                  ELSE LET main ==
                             [content |->
                                validateSuggestionContent(
                                  contentOrUrl(c),
                                  IF text # <<>> THEN text
                                  ELSE <<"r","e","s","u","l","t">>),
                              description |-> c.url]
                           partial == generatePartialSuggestions(text, p, cfg)
                       IN IF partial.outcome # "none"
                          THEN [suggest |-> <<>>, parsed |-> p,
                                constructed |-> c]
                          ELSE [suggest |->
                                  validSuggestions(<<main>> \o partial.list),
                                parsed |-> p, constructed |-> c]

\* The chrome.tabs call navigateToUrl makes for a disposition.
Dispositions == {"currentTab", "newForegroundTab", "newBackgroundTab"}
navigateToUrl(url, disposition) ==
  IF disposition = "newForegroundTab"
  THEN [api |-> "tabs.create", url |-> url, active |-> TRUE]
  ELSE IF disposition = "newBackgroundTab"
       THEN [api |-> "tabs.create", url |-> url, active |-> FALSE]
       ELSE [api |-> "tabs.update", url |-> url]

\* The navigations handleInputEntered makes (none when parse or construct
\* throws: the catch only logs), with the values of its locals.
inputEntered(text, disposition, cfg) ==
  IF startsWith(text, <<"h","t","t","p">>)
  THEN [navigate |-> <<navigateToUrl(text, disposition)>>,
        parsed |-> NoParsed, constructed |-> NoConstructed]
  ELSE LET p == parse(text, cfg)
       IN IF p.exception # "none"
          THEN [navigate |-> <<>>, parsed |-> p,
                constructed |-> NoConstructed]
          ELSE LET c == construct(p, cfg)
               IN IF c.exception # "none"
                  THEN [navigate |-> <<>>, parsed |-> p, constructed |-> c]
                  ELSE [navigate |->
                          <<navigateToUrl(IF c.isValid THEN c.url
                                          ELSE searchUrl(text),
                                          disposition)>>,
                        parsed |-> p, constructed |-> c]

\* Most words of a text typed into the omnibox.
MaxOmniboxWords == 2

\* A configuration whose tokens carry the type property of the test suite's
\* mockConfig, with four path tokens.
ConfigTyped ==
  [tokens |->
     << [key |-> WordDev, value |-> ConfigPlain.tokens[1].value,
         type |-> "base"],
        [key |-> WordApi, value |-> ConfigPlain.tokens[2].value,
         type |-> "path"],
        [key |-> <<"v","1">>, value |-> <<"v","1">>, type |-> "path"],
        [key |-> <<"v","2">>, value |-> <<"v","2">>, type |-> "path"],
        [key |-> <<"v","3">>, value |-> <<"v","3">>, type |-> "path"] >>]

OmniboxWords ==
  {WordDev, WordApi, WordX, WordConstructor, WordUrl, <<"x", "!">>}

OmniboxInputs ==
  { w \o join(ws, <<" ">>) :
      w \in { <<>>, <<"@">>, <<" ">> },
      ws \in UNION { [1..n -> OmniboxWords] : n \in 0..MaxOmniboxWords } }

InitOmnibox ==
  /\ input \in OmniboxInputs
  /\ config \in {ConfigPlain, ConfigSlashes, ConfigTyped}
  /\ parsed = NoParsed
  /\ constructed = NoConstructed
  /\ pc = "start"
  /\ variant = <<>>
  /\ parsedVariant = NoParsed
  /\ format = "unchecked"
  /\ OmniboxUnused
  /\ StorageUnused

\* chrome.omnibox.onInputChanged: handleInputChanged(text, suggest)
HandleInputChanged ==
  /\ pc = "start"
  /\ LET r == inputChanged(input, config)
     IN /\ suggested' = r.suggest
        /\ parsed' = r.parsed
        /\ constructed' = r.constructed
  /\ pc' = "changed"
  /\ UNCHANGED <<input, config, variant, parsedVariant, format,
                 navigated, storageVars>>

\* chrome.omnibox.onInputEntered: handleInputEntered(text, disposition)
HandleInputEntered ==
  /\ pc \in {"start", "changed"}
  /\ \E disposition \in Dispositions :
       LET r == inputEntered(input, disposition, config)
       IN /\ navigated' = navigated \o r.navigate
          /\ parsed' = r.parsed
          /\ constructed' = r.constructed
  /\ pc' = "entered"
  /\ UNCHANGED <<input, config, variant, parsedVariant, format,
                 suggested, storageVars>>

NextOmnibox == HandleInputChanged \/ HandleInputEntered

SpecOmnibox == InitOmnibox /\ [][NextOmnibox]_vars

(***************************************************************************)
(* construct called on a ParsedInput built by the caller: construct is     *)
(* public and takes any value of the type, not only the results of parse.  *)
(***************************************************************************)

\* Longest token list and error list of a caller-built ParsedInput.
MaxHandBuilt == 2

HandBuiltTokens ==
  { [key |-> WordDev, value |-> ConfigPlain.tokens[1].value,
     isResolved |-> TRUE],
    [key |-> WordApi, value |-> ConfigPlain.tokens[2].value,
     isResolved |-> TRUE],
    [key |-> WordX, value |-> WordX, isResolved |-> FALSE] }

HandBuiltErrors ==
  { createValidationError("input", MsgInputEmpty, "EMPTY_INPUT"),
    createValidationError("input", MsgInvalidFormat, "INVALID_FORMAT"),
    createValidationError("tokens", MsgNoBaseUrl, "MISSING_BASE") }

HandBuiltInputs == { <<>>, WordX, WordDev \o <<" ">> \o WordApi }

HandBuiltParsed ==
  { [tokens |-> ts, isValid |-> v, errors |-> es, originalInput |-> o,
     exception |-> "none"] :
      ts \in UNION { [1..n -> HandBuiltTokens] : n \in 0..MaxHandBuilt },
      v \in BOOLEAN,
      es \in UNION { [1..n -> HandBuiltErrors] : n \in 0..MaxHandBuilt },
      o \in HandBuiltInputs }

InitHandBuilt ==
  /\ parsed \in HandBuiltParsed
  /\ input = parsed.originalInput
  /\ config \in Configs
  /\ constructed = NoConstructed
  /\ pc = "parsed"
  /\ variant = <<>>
  /\ parsedVariant = NoParsed
  /\ format = "unchecked"
  /\ OmniboxUnused
  /\ StorageUnused

NextHandBuilt == Construct

SpecHandBuilt == InitHandBuilt /\ [][NextHandBuilt]_vars

(***************************************************************************)
(* The mapping modified in place between parse and construct, as setToken  *)
(* and removeToken modify the configuration object they hold.              *)
(***************************************************************************)

\* Most words of an input parsed before the mapping is modified.
MaxSnapshotWords == 2

\* Most modifications of the mapping between parse and construct.
MaxMutations == 2

SnapshotInputs ==
  { join(ws, <<" ">>) :
      ws \in UNION { [1..n -> {WordDev, WordApi, WordX}] :
                       n \in 1..MaxSnapshotWords } }

\* config.tokens[key] = { value }
assignToken(tokens, key, value) ==
  IF hasOwnKey(tokens, key)
  THEN [i \in 1..Len(tokens) |->
          IF tokens[i].key = key THEN Token(key, value) ELSE tokens[i]]
  ELSE Append(tokens, Token(key, value))

\* delete config.tokens[key]
deleteToken(tokens, key) ==
  SelectSeq(tokens, LAMBDA t : t.key # key)

MutationKeys == {WordDev, WordApi, WordX}
MutationValues ==
  { <<"h","t","t","p","s",":","/","/","c",".","i","o">>, <<"v","2">> }

InitSnapshot ==
  /\ input \in SnapshotInputs
  /\ config \in {ConfigPlain, ConfigSlashes}
  /\ parsed = NoParsed
  /\ constructed = NoConstructed
  /\ pc = "start"
  /\ variant = <<>>
  /\ parsedVariant = NoParsed
  /\ format = "unchecked"
  /\ OmniboxUnused
  /\ StorageUnused

\* A key of the mapping is added or changed after parse has returned.
SetMappingKey ==
  /\ pc = "parsed"
  /\ Len(config.tokens) < Len(ConfigPlain.tokens) + MaxMutations
  /\ \E key \in MutationKeys, value \in MutationValues :
       /\ configToken(config.tokens, key).value # value
       /\ config' = [config EXCEPT !.tokens = assignToken(@, key, value)]
  /\ UNCHANGED <<input, parsed, constructed, pc,
                 variant, parsedVariant, format,
                 omniboxVars, storageVars>>

\* A key of the mapping is removed after parse has returned.
RemoveMappingKey ==
  /\ pc = "parsed"
  /\ \E key \in MutationKeys :
       /\ hasOwnKey(config.tokens, key)
       /\ config' = [config EXCEPT !.tokens = deleteToken(@, key)]
  /\ UNCHANGED <<input, parsed, constructed, pc,
                 variant, parsedVariant, format,
                 omniboxVars, storageVars>>

NextSnapshot == Parse \/ SetMappingKey \/ RemoveMappingKey \/ Construct

SpecSnapshot == InitSnapshot /\ [][NextSnapshot]_vars

(***************************************************************************)
(* StorageManager (core/storage): the configuration kept in                *)
(* chrome.storage.sync.  A call runs from one await to the next without    *)
(* interruption; storage.get reads and storage.set writes when the request *)
(* is issued, and the call goes on when the request is answered.           *)
(***************************************************************************)

\* Most StorageManager calls made one after the other, and most calls made
\* by two callers that overlap.
MaxStorageCalls == 3
MaxOverlappingCalls == 2

\* { ...a, ...b }
spread(a, b) ==
  [f \in DOMAIN a \cup DOMAIN b |-> IF f \in DOMAIN b THEN b[f] ELSE a[f]]

\* isValidConfig(stored)
isValidConfig(obj) == obj # Absent

\* The value saveConfig writes: { ...config, version: config.version ||
\* DEFAULT_CONFIG.version }, serialized by storage.set.
savedCopy(cfg, defaults) ==
  [cfg EXCEPT !.version = IF @ # "" THEN @ ELSE defaults.version]

\* The object getConfig returns for a valid stored value.
mergedWithDefaults(got, defaults) ==
  [spread(defaults, got) EXCEPT
     !.settings = spread(defaults.settings, got.settings)]

StorageKeys == {WordDev, WordApi}
StorageValue(key) ==
  IF key = WordDev THEN ConfigPlain.tokens[1].value
  ELSE ConfigPlain.tokens[2].value

\* The calls a caller can make.
Requests ==
  { [op |-> "getConfig"], [op |-> "resetConfig"],
    [op |-> "updateSettings", settings |-> [showDescriptions |-> FALSE]],
    [op |-> "importConfig",
     exported |-> [version |-> "1.0.0",
                   tokens |-> <<Token(WordX, WordUrl)>>]] }
  \cup { [op |-> "setToken", key |-> k, value |-> StorageValue(k)] :
           k \in StorageKeys }
  \cup { [op |-> "removeToken", key |-> k] : k \in StorageKeys }

IdleCall == [at |-> "idle"]

\* What the caller does with the configuration getConfig returned, up to
\* the storage.set of its saveConfig: the configuration after the change.
changedConfig(request, cfg) ==
  IF request.op = "setToken"
  THEN [cfg EXCEPT !.tokens = assignToken(@, request.key, request.value)]
  ELSE IF request.op = "removeToken"
  THEN [cfg EXCEPT !.tokens = deleteToken(@, request.key)]
  ELSE IF request.op = "updateSettings"
  THEN [cfg EXCEPT !.settings = spread(@, request.settings)]
  ELSE [cfg EXCEPT !.tokens = request.exported.tokens,
                   !.version = request.exported.version]

\* setToken, removeToken and updateSettings assign into the object that
\* getConfig returned; importConfig builds a new object.
changesInPlace(request) ==
  request.op \in {"setToken", "removeToken", "updateSettings"}

\* What a call of type Promise<void> returns.
Void == [void |-> TRUE]

\* The entry of a finished call, and the list of the last two.
finished(request, result) ==
  LET entry == [request |-> request, result |-> result]
  IN IF Len(completed) < 2 THEN Append(completed, entry)
     ELSE <<completed[2], entry>>

\* A caller makes a call: resetConfig issues its storage.set of
\* DEFAULT_CONFIG, every other call the storage.get of getConfig.
StartCall(c) ==
  /\ calls[c].at = "idle"
  /\ budget > 0
  /\ budget' = budget - 1
  /\ \E request \in Requests :
       IF request.op = "resetConfig"
       THEN /\ stored' = savedCopy(defaultConfig, defaultConfig)
            /\ calls' = [calls EXCEPT ![c] =
                           [at |-> "saving", request |-> request]]
       ELSE /\ calls' = [calls EXCEPT ![c] =
                           [at |-> "getting", request |-> request,
                            got |-> stored]]
            /\ UNCHANGED stored
  /\ UNCHANGED <<defaultConfig, completed>>
  /\ UNCHANGED <<input, config, parsed, constructed, pc,
                 variant, parsedVariant, format, omniboxVars>>

\* storage.get is answered.  A valid value is merged with the defaults into
\* a new object, which the caller changes and saves (getConfig itself ends
\* here); otherwise getConfig saves DEFAULT_CONFIG.
GetReturns(c) ==
  /\ calls[c].at = "getting"
  /\ LET request == calls[c].request
         got == calls[c].got
     IN IF isValidConfig(got)
        THEN LET cfg == mergedWithDefaults(got, defaultConfig)
             IN IF request.op = "getConfig"
                THEN /\ completed' = finished(request, cfg)
                     /\ calls' = [calls EXCEPT ![c] = IdleCall]
                     /\ UNCHANGED stored
                ELSE /\ stored' = savedCopy(changedConfig(request, cfg),
                                            defaultConfig)
                     /\ calls' = [calls EXCEPT ![c] =
                                    [at |-> "saving", request |-> request]]
                     /\ UNCHANGED completed
        ELSE /\ stored' = savedCopy(defaultConfig, defaultConfig)
             /\ calls' = [calls EXCEPT ![c] =
                            [at |-> "savingDefault", request |-> request]]
             /\ UNCHANGED completed
  /\ UNCHANGED <<defaultConfig, budget>>
  /\ UNCHANGED <<input, config, parsed, constructed, pc,
                 variant, parsedVariant, format, omniboxVars>>

\* The storage.set of the defaults is answered and getConfig returns
\* DEFAULT_CONFIG itself: the caller's change in place is a change of the
\* shared object.
SaveDefaultReturns(c) ==
  /\ calls[c].at = "savingDefault"
  /\ LET request == calls[c].request
     IN IF request.op = "getConfig"
        THEN /\ completed' = finished(request, defaultConfig)
             /\ calls' = [calls EXCEPT ![c] = IdleCall]
             /\ UNCHANGED <<stored, defaultConfig>>
        ELSE /\ defaultConfig' =
                  IF changesInPlace(request)
                  THEN changedConfig(request, defaultConfig)
                  ELSE defaultConfig
             /\ stored' = savedCopy(changedConfig(request, defaultConfig),
                                    defaultConfig')
             /\ calls' = [calls EXCEPT ![c] =
                            [at |-> "saving", request |-> request]]
             /\ UNCHANGED completed
  /\ UNCHANGED budget
  /\ UNCHANGED <<input, config, parsed, constructed, pc,
                 variant, parsedVariant, format, omniboxVars>>

\* The storage.set of saveConfig is answered and the call ends.
SaveReturns(c) ==
  /\ calls[c].at = "saving"
  /\ completed' = finished(calls[c].request, Void)
  /\ calls' = [calls EXCEPT ![c] = IdleCall]
  /\ UNCHANGED <<stored, defaultConfig, budget>>
  /\ UNCHANGED <<input, config, parsed, constructed, pc,
                 variant, parsedVariant, format, omniboxVars>>

\* The parser is not used.
ParserUnused ==
  /\ input = <<>>
  /\ config = DefaultConfig
  /\ parsed = NoParsed
  /\ constructed = NoConstructed
  /\ pc = "start"
  /\ variant = <<>>
  /\ parsedVariant = NoParsed
  /\ format = "unchecked"
  /\ OmniboxUnused

\* One caller that awaits each call before the next one.
InitStorage ==
  /\ ParserUnused
  /\ stored \in {Absent, DefaultConfig}
  /\ defaultConfig = DefaultConfig
  /\ calls = <<IdleCall>>
  /\ completed = <<>>
  /\ budget = MaxStorageCalls

\* Two callers (the side panel's addToken and removeToken do not wait for
\* one another).
InitOverlapping ==
  /\ ParserUnused
  /\ stored \in {Absent, DefaultConfig}
  /\ defaultConfig = DefaultConfig
  /\ calls = <<IdleCall, IdleCall>>
  /\ completed = <<>>
  /\ budget = MaxOverlappingCalls

StartSomeCall == \E c \in DOMAIN calls : StartCall(c)
SomeGetReturns == \E c \in DOMAIN calls : GetReturns(c)
SomeSaveDefaultReturns == \E c \in DOMAIN calls : SaveDefaultReturns(c)
SomeSaveReturns == \E c \in DOMAIN calls : SaveReturns(c)

NextStorage ==
  StartSomeCall \/ SomeGetReturns \/ SomeSaveDefaultReturns \/ SomeSaveReturns

SpecStorage == InitStorage /\ [][NextStorage]_vars

SpecOverlapping == InitOverlapping /\ [][NextStorage]_vars

(***************************************************************************)
(* parse called on an input and on a rewriting of it that normalization    *)
(* is meant to absorb: a legacy '@' put in front, whitespace put around,   *)
(* every whitespace character widened to a longer run, and the input       *)
(* normalized beforehand.                                                  *)
(***************************************************************************)

\* Most words of an input that is parsed together with a rewriting of it.
MaxVariantWords == 2

VariantWrappers ==
  Wrappers \cup { <<<<" ">>, <<>>>>,
                   <<<<"@", "@">>, <<>>>>,
                   <<<<"@", " ", "@">>, <<>>>> }

VariantInputs ==
  { w[1] \o join(ws, sep) \o w[2] :
      w \in VariantWrappers,
      ws \in UNION { [1..n -> Words] : n \in 0..MaxVariantWords },
      sep \in Separators }

VariantConfigs == {ConfigPlain, ConfigSlashes}

\* '@' + s
withLegacyPrefix(s) == <<"@">> \o s

\* Whitespace put before and after an input.
Paddings == { <<>>, <<" ">>, <<"\t", "\n">> }
padded(s, before, after) == before \o s \o after

\* Every whitespace character of s replaced by a run of several.
WhitespaceRuns ==
  { <<" ", " ">>, <<" ", "\t">>, <<"\n", " ">>, <<"\t", "\n", "\t">> }
RECURSIVE widened(_, _)
widened(s, run) ==
  IF s = <<>> THEN <<>>
  ELSE (IF IsWhitespace(Head(s)) THEN run ELSE <<Head(s)>>)
       \o widened(Tail(s), run)

VariantsOf(s) ==
  {withLegacyPrefix(s), normalizeInput(s)}
    \cup { padded(s, b, a) : b \in Paddings, a \in Paddings }
    \cup { widened(s, run) : run \in WhitespaceRuns }

InitVariants ==
  /\ input \in VariantInputs
  /\ config \in VariantConfigs
  /\ variant \in VariantsOf(input)
  /\ parsed = NoParsed
  /\ parsedVariant = NoParsed
  /\ constructed = NoConstructed
  /\ pc = "start"
  /\ format = "unchecked"
  /\ OmniboxUnused
  /\ StorageUnused

\* parse(variant, config), called after parse(input, config) has ended.
ParseVariant ==
  /\ pc \in {"parsed", "parseThrew"}
  /\ parsedVariant' = parse(variant, config)
  /\ pc' = "variantParsed"
  /\ UNCHANGED <<input, config, parsed, constructed, variant, format,
                 omniboxVars, storageVars>>

NextVariants == Parse \/ ParseVariant

SpecVariants == InitVariants /\ [][NextVariants]_vars

(***************************************************************************)
(* isValidFormat and parse called on an input: words with and without      *)
(* characters outside [a-zA-Z0-9-].  handleInputChanged calls parse only   *)
(* after isValidFormat has accepted the input; here the two calls are      *)
(* independent, so that the results can be compared for every input.       *)
(***************************************************************************)

\* Most words of an input whose format is checked.
MaxFormatWords == 2

FormatWords ==
  { WordDev,
    WordConstructor,
    <<"A", "-", "1">>,
    <<"-">>,
    <<"a", "p", "i", "!">>,
    <<"a", "p", "i", "@">>,
    <<"a", "_", "b">> }

FormatInputs ==
  { w[1] \o join(ws, sep) \o w[2] :
      w \in VariantWrappers,
      ws \in UNION { [1..n -> FormatWords] : n \in 0..MaxFormatWords },
      sep \in Separators }

InitFormat ==
  /\ input \in FormatInputs
  /\ config \in {DefaultConfig, ConfigPlain}
  /\ parsed = NoParsed
  /\ constructed = NoConstructed
  /\ pc = "start"
  /\ variant = <<>>
  /\ parsedVariant = NoParsed
  /\ format = "unchecked"
  /\ OmniboxUnused
  /\ StorageUnused

\* parser.isValidFormat(input)
CheckFormat ==
  /\ format = "unchecked"
  /\ format' = IF isValidFormat(input) THEN "valid" ELSE "invalid"
  /\ UNCHANGED <<input, config, parsed, constructed, pc,
                 variant, parsedVariant, omniboxVars, storageVars>>

NextFormat == CheckFormat \/ Parse

SpecFormat == InitFormat /\ [][NextFormat]_vars

(***************************************************************************)
(* Vocabulary of the properties.                                            *)
(***************************************************************************)

\* parse has returned a ParsedInput (it did not throw).
ParseReturned == pc \in {"parsed", "constructed", "constructThrew"}

\* The pipeline has run as far as it goes for this input.
PipelineEnded == pc \in {"parseThrew", "constructed", "constructThrew"}

\* The segments of the input: the non-empty pieces of the normalized input
\* split on single spaces.
InputSegments == segmentsOf(normalizeInput(trim(input)))

\* s is a key of the mapping, and the value mapped to it.
IsMappingKey(s) == \E i \in 1..Len(config.tokens) : config.tokens[i].key = s
MappedValue(s) ==
  config.tokens[CHOOSE i \in 1..Len(config.tokens) :
                  config.tokens[i].key = s].value

KeysOf(tokens) == [i \in 1..Len(tokens) |-> tokens[i].key]

IsBlank(s) == \A i \in 1..Len(s) : IsWhitespace(s[i])

\* Position of the first token whose value starts with http:// or https://
\* (0 when there is none).
FirstUrlToken(tokens) ==
  IF \E i \in 1..Len(tokens) : looksLikeBaseUrl(tokens[i].value)
  THEN CHOOSE i \in 1..Len(tokens) :
         /\ looksLikeBaseUrl(tokens[i].value)
         /\ \A j \in 1..(i - 1) : ~looksLikeBaseUrl(tokens[j].value)
  ELSE 0

\* A value with the slashes at both ends removed.
Core(value) == stripLeadingSlashes(stripTrailingSlashes(value))

\* The path components of a string: its non-empty pieces between slashes.
Components(s) == SelectSeq(split(s, "/"), LAMBDA c : c # <<>>)

\* sub occurs in s.
Contains(s, sub) ==
  \E i \in 1..(Len(s) + 1) :
    /\ i + Len(sub) - 1 <= Len(s)
    /\ SubSeq(s, i, i + Len(sub) - 1) = sub

\* No segment of the input is a mapping key whose value is a base URL.
NoSegmentResolvesToBase ==
  \A i \in 1..Len(InputSegments) :
    ~(/\ IsMappingKey(InputSegments[i])
      /\ looksLikeBaseUrl(MappedValue(InputSegments[i])))

\* s holds a whitespace character.
HasWhitespace(s) == \E i \in 1..Len(s) : IsWhitespace(s[i])

\* s begins with http:// or https://, has something after the scheme and no
\* whitespace.
WellFormedUrl(s) ==
  /\ looksLikeBaseUrl(s)
  /\ Len(s) > (IF startsWith(s, HttpsPrefix) THEN Len(HttpsPrefix)
                                             ELSE Len(HttpPrefix))
  /\ ~HasWhitespace(s)

\* The string construct joins from the tokens of the parse result.
JoinedUrl ==
  buildFinalUrl(urlPartsOf(parsed.tokens, FirstUrlToken(parsed.tokens)))

\* The first character of s that is not whitespace is '@'.
FirstNonWhitespaceIsMarker(s) ==
  LET t == trimStart(s) IN t # <<>> /\ Head(t) = "@"

\* How the variant was made from the input.
IsLegacyVariant == variant = withLegacyPrefix(input)
IsPaddedVariant ==
  \E b \in Paddings, a \in Paddings :
    b \o a # <<>> /\ variant = padded(input, b, a)
IsWidenedVariant ==
  \E run \in WhitespaceRuns :
    variant = widened(input, run) /\ variant # input
IsNormalizedVariant == variant = normalizeInput(input)

\* The input is a result of normalizeInput.
InputIsNormalized == normalizeInput(withLegacyPrefix(input)) = input

\* The input holds an '@' somewhere else than as its first non-whitespace
\* character.
HasNonLeadingMarker(s) ==
  LET t == trimStart(s)
  IN \E i \in 2..Len(t) : t[i] = "@"

\* The input holds one of the punctuation characters of the explored words.
HasPunctuation(s) == \E i \in 1..Len(s) : s[i] \in {"!", "_", ".", ":", "/"}

RECURSIVE Flatten(_)
Flatten(lists) ==
  IF lists = <<>> THEN <<>> ELSE Head(lists) \o Flatten(Tail(lists))

(***************************************************************************)
(* C1  Resolution correctness.  Every token parse returns has key s, its   *)
(* segment; when s is a key of the mapping the token is resolved and its   *)
(* value is the mapped value; when s is no key of the mapping the token is *)
(* unresolved and its value is s.                                          *)
(* Fails on the code: a segment that spells a property of Object.prototype *)
(* is read through the prototype chain and comes back resolved.            *)
(***************************************************************************)
C1_ResolutionCorrect ==
  ParseReturned =>
    \A i \in 1..Len(parsed.tokens) :
      LET t == parsed.tokens[i]
      IN /\ IsMappingKey(t.key) =>
              t.isResolved /\ t.value = MappedValue(t.key)
         /\ ~IsMappingKey(t.key) =>
              ~t.isResolved /\ t.value = t.key

(***************************************************************************)
(* C2  For every input with at least one segment parse returns, with       *)
(* isValid true exactly when some segment is a mapping key whose value     *)
(* starts with http:// or https://; otherwise isValid is false, the only   *)
(* error is MISSING_BASE, and tokens lists every segment.                  *)
(* Fails on the code: parse throws on a prototype-named segment.           *)
(***************************************************************************)
C2_ValidIffBaseKey ==
  (pc # "start" /\ Len(InputSegments) > 0) =>
    /\ ParseReturned
    /\ parsed.isValid <=>
         \E i \in 1..Len(InputSegments) :
           /\ IsMappingKey(InputSegments[i])
           /\ looksLikeBaseUrl(MappedValue(InputSegments[i]))
    /\ ~parsed.isValid =>
         /\ Len(parsed.errors) = 1
         /\ parsed.errors[1].code = "MISSING_BASE"
         /\ KeysOf(parsed.tokens) = InputSegments

(***************************************************************************)
(* C3  Order preservation.  For every valid input the keys of the tokens   *)
(* are the segments of the normalized input, in the same order and number. *)
(***************************************************************************)
C3_OrderPreserved ==
  (ParseReturned /\ parsed.isValid) =>
    KeysOf(parsed.tokens) = InputSegments

C3_Witness ==
  /\ pc = "parsed"
  /\ parsed.isValid
  /\ Len(parsed.tokens) = 3
  /\ ~parsed.tokens[1].isResolved
  /\ parsed.tokens[2].isResolved
  /\ parsed.tokens[3].key # parsed.tokens[1].key
  /\ Len(input) > Len(join(InputSegments, <<" ">>))

(***************************************************************************)
(* C4  Whenever construct returns a URL, consecutive parts (the base       *)
(* value, then each other token's value) are separated by exactly one '/': *)
(* up to the slashes that end the URL, the URL is the parts, each without  *)
(* the slashes at its ends, joined by single slashes.                      *)
(* Fails on the code: buildFinalUrl strips only the leading slashes of a   *)
(* path part, so a part that ends with '/' is followed by '//'.            *)
(***************************************************************************)
C4_SingleSlashBetweenParts ==
  (pc = "constructed" /\ constructed.isValid) =>
    LET parts == urlPartsOf(parsed.tokens, FirstUrlToken(parsed.tokens))
    IN stripTrailingSlashes(constructed.url) =
         join(<<stripTrailingSlashes(parts[1])>> \o
                [i \in 1..(Len(parts) - 1) |-> Core(parts[i + 1])],
              <<"/">>)

(***************************************************************************)
(* C5  Dynamic pass-through.  A segment that is no key of the mapping      *)
(* yields an unresolved token whose value is the segment, and in the URL   *)
(* construct returns the path components are those of the non-base values  *)
(* in order, the unresolved ones verbatim.                                 *)
(* Fails on the code: a prototype-named segment is no key of the mapping   *)
(* and its token is resolved, with an undefined value.                     *)
(***************************************************************************)
C5_DynamicPassThrough ==
  /\ ParseReturned =>
       \A i \in 1..Len(parsed.tokens) :
         ~IsMappingKey(parsed.tokens[i].key) =>
           /\ ~parsed.tokens[i].isResolved
           /\ parsed.tokens[i].value = parsed.tokens[i].key
  /\ (pc = "constructed" /\ constructed.isValid) =>
       LET b == FirstUrlToken(parsed.tokens)
           others == otherIndices(parsed.tokens, b)
           base == stripTrailingSlashes(parsed.tokens[b].value)
           path == SubSeq(constructed.url, Len(base) + 1,
                          Len(constructed.url))
       IN /\ startsWith(constructed.url, base)
          /\ Components(path) =
               Flatten([k \in 1..Len(others) |->
                          IF parsed.tokens[others[k]].isResolved
                          THEN Components(parsed.tokens[others[k]].value)
                          ELSE Components(parsed.tokens[others[k]].key)])

(***************************************************************************)
(* C6  construct takes as base the first token, in input order, whose      *)
(* value starts with http:// or https://, wherever it sits, and appends    *)
(* every other token's value in original relative order: the tokens before *)
(* the base first, then the tokens after it, later URL-valued tokens       *)
(* included.  Stated of every run in which construct reaches the join and  *)
(* returns.                                                                *)
(***************************************************************************)
C6_BaseIsFirstUrlToken ==
  (pc = "constructed" /\ parsed.isValid) =>
    LET tokens == parsed.tokens
        b == FirstUrlToken(tokens)
        before == [i \in 1..(b - 1) |-> tokens[i].value]
        after == [i \in 1..(Len(tokens) - b) |-> tokens[b + i].value]
    IN /\ b > 0
       /\ constructed.url =
            buildFinalUrl(<<tokens[b].value>> \o before \o after)

C6_Witness ==
  /\ pc = "constructed"
  /\ constructed.isValid
  /\ Len(parsed.tokens) = 3
  /\ FirstUrlToken(parsed.tokens) = 2
  /\ looksLikeBaseUrl(parsed.tokens[3].value)

C8_BaseIsResolved ==
  (pc = "constructed" /\ constructed.isValid) =>
    LET base == parsed.tokens[findBaseToken(parsed.tokens, 1).index]
    IN /\ base.isResolved
       /\ IsMappingKey(base.key)
       /\ startsWith(constructed.url, MappedValue(base.key))

(***************************************************************************)
(* C9  For an input that is empty or only whitespace parse returns isValid *)
(* false, no token, and exactly one error, of code EMPTY_INPUT.            *)
(***************************************************************************)
C9_BlankInputIsEmptyInput ==
  (pc # "start" /\ IsBlank(input)) =>
    /\ ParseReturned
    /\ ~parsed.isValid
    /\ parsed.tokens = <<>>
    /\ Len(parsed.errors) = 1
    /\ parsed.errors[1].code = "EMPTY_INPUT"

C9_Witness ==
  /\ pc = "parsed"
  /\ Len(input) > 1
  /\ IsBlank(input)
  /\ parsed.errors[1].code = "EMPTY_INPUT"

(***************************************************************************)
(* C10  As claimed: for every input whose normalized form is the empty     *)
(* string, the lone legacy marker '@' included, parse fails with a single  *)
(* error of code EMPTY_INPUT and no token.                                 *)
(* Fails on the code: the blank test runs before normalization, so '@'     *)
(* passes it and is rejected for having no segment.                        *)
(***************************************************************************)
C10_NormalizedEmptyIsEmptyInput ==
  (pc # "start" /\ normalizeInput(input) = <<>>) =>
    /\ ParseReturned
    /\ ~parsed.isValid
    /\ parsed.tokens = <<>>
    /\ Len(parsed.errors) = 1
    /\ parsed.errors[1].code = "EMPTY_INPUT"

(***************************************************************************)
(* C10 as amended: for every input whose normalized form is the empty      *)
(* string parse fails with a single error and no token; the code is        *)
(* EMPTY_INPUT when the input is empty or only whitespace and              *)
(* INVALID_FORMAT when the input is the legacy marker '@' alone, possibly  *)
(* surrounded by whitespace.                                               *)
(***************************************************************************)
C10_NormalizedEmptyFails ==
  (pc # "start" /\ normalizeInput(input) = <<>>) =>
    /\ ParseReturned
    /\ ~parsed.isValid
    /\ parsed.tokens = <<>>
    /\ Len(parsed.errors) = 1
    /\ parsed.errors[1].code =
         IF trim(input) = <<>> THEN "EMPTY_INPUT" ELSE "INVALID_FORMAT"

C10_Witness ==
  /\ pc = "parsed"
  /\ normalizeInput(input) = <<>>
  /\ trim(input) = <<"@">>
  /\ Len(input) > 1
  /\ parsed.errors[1].code = "INVALID_FORMAT"

(***************************************************************************)
(* C15  parse and construct never raise an exception, whatever the         *)
(* segments are: every failure is reported as data.                        *)
(* Fails on the code: a segment that names a property of Object.prototype  *)
(* resolves to a function whose value is undefined, and startsWith         *)
(* (in parse or construct) or replace (in buildFinalUrl) is then called on *)
(* undefined, which throws a TypeError.                                    *)
(***************************************************************************)
C15_NeverThrows ==
  /\ pc # "parseThrew"
  /\ pc # "constructThrew"
  /\ parsed.exception = "none"
  /\ constructed.exception = "none"

(***************************************************************************)
(* C17  Whenever construct returns isValid true, description is            *)
(* 'Navigate to: ' followed by the keys of all tokens, base included, in   *)
(* input order, joined by the arrow, and content equals url.               *)
(***************************************************************************)
C17_DescriptionInInputOrder ==
  (pc = "constructed" /\ constructed.isValid) =>
    /\ constructed.description = NavigateTo \o join(InputSegments, Arrow)
    /\ constructed.content = constructed.url

C17_Witness ==
  /\ pc = "constructed"
  /\ constructed.isValid
  /\ Len(parsed.tokens) = 3
  /\ FirstUrlToken(parsed.tokens) = 2
  /\ constructed.description = NavigateTo \o join(InputSegments, Arrow)

(***************************************************************************)
(* C19  For an input in which no segment resolves to a base, construct     *)
(* applied to the result of parse returns isValid false and a description  *)
(* that contains 'Base token not found' (tests/parser.test.ts:172-178).    *)
(* Fails on the code: the message is 'No base URL found in tokens.'.       *)
(***************************************************************************)
C19_BaseTokenNotFoundText ==
  (pc = "constructed" /\ Len(InputSegments) > 0 /\ NoSegmentResolvesToBase)
  => /\ ~constructed.isValid
     /\ Contains(constructed.description,
                 <<"B","a","s","e"," ","t","o","k","e","n"," ",
                   "n","o","t"," ","f","o","u","n","d">>)

(***************************************************************************)
(* C20  Every token parse returns carries a type field: 'base' or 'path',  *)
(* the configured type, when the segment is resolved, and 'dynamic' when   *)
(* it is unresolved (tests/parser.test.ts:29-66).                          *)
(* Fails on the code: the tokens are {key, value, isResolved}, without a   *)
(* type.                                                                   *)
(***************************************************************************)
C20_TokensCarryType ==
  ParseReturned =>
    \A i \in 1..Len(parsed.tokens) :
      /\ "type" \in DOMAIN parsed.tokens[i]
      /\ parsed.tokens[i].isResolved =>
           parsed.tokens[i].type \in {"base", "path"}
      /\ ~parsed.tokens[i].isResolved =>
           parsed.tokens[i].type = "dynamic"

(***************************************************************************)
(* C18  construct returns isValid true only if the joined string begins    *)
(* with http:// or https://, has a non-empty remainder and contains no     *)
(* whitespace; when the joined string fails that test, construct returns   *)
(* isValid false, description 'Invalid URL constructed', url the malformed *)
(* string and content the original input.                                  *)
(* Fails on the code: VALID_URL lets any character stand second after the  *)
(* scheme, and new URL removes tabs, so a base value with a tab there is   *)
(* accepted.                                                               *)
(***************************************************************************)
C18_ValidOnlyIfWellFormed ==
  (/\ pc = "constructed"
   /\ parsed.isValid
   /\ FirstUrlToken(parsed.tokens) # 0)
  => /\ constructed.isValid => WellFormedUrl(constructed.url)
     /\ ~WellFormedUrl(JoinedUrl) =>
          /\ ~constructed.isValid
          /\ constructed.description = MsgInvalidUrl
          /\ constructed.url = JoinedUrl
          /\ constructed.content = parsed.originalInput

(***************************************************************************)
(* C16  When parsed.isValid is false or the token list is empty,           *)
(* construct returns isValid false, url '', content equal to the original  *)
(* input and as description the error messages joined with '; ', or the    *)
(* generic 'Invalid input' when there are no errors.                       *)
(***************************************************************************)
C16_InvalidParsedReported ==
  (pc = "constructed" /\ (~parsed.isValid \/ Len(parsed.tokens) = 0))
  => /\ ~constructed.isValid
     /\ constructed.url = <<>>
     /\ constructed.content = parsed.originalInput
     /\ constructed.description =
          IF Len(parsed.errors) = 0 THEN MsgInvalidInput
          ELSE join([i \in 1..Len(parsed.errors) |-> parsed.errors[i].message],
                    <<";", " ">>)

C16_Witness ==
  /\ pc = "constructed"
  /\ ~parsed.isValid
  /\ Len(parsed.tokens) > 0
  /\ Len(parsed.errors) = 2
  /\ parsed.errors[1] # parsed.errors[2]
  /\ constructed.description =
       parsed.errors[1].message \o <<";", " ">> \o parsed.errors[2].message

(***************************************************************************)
(* C11  For every input s whose first non-whitespace character is not      *)
(* '@', parse('@' + s, m) has the same token list (keys, values,           *)
(* isResolved, order) as parse(s, m), and ends the same way.               *)
(***************************************************************************)
C11_LegacyPrefixIgnored ==
  (/\ pc = "variantParsed"
   /\ IsLegacyVariant
   /\ ~FirstNonWhitespaceIsMarker(input))
  => /\ parsedVariant.tokens = parsed.tokens
     /\ parsedVariant.exception = parsed.exception

C11_Witness ==
  /\ pc = "variantParsed"
  /\ IsLegacyVariant
  /\ ~FirstNonWhitespaceIsMarker(input)
  /\ Len(parsed.tokens) = 2
  /\ parsed.tokens[1].isResolved
  /\ ~parsed.tokens[2].isResolved
  /\ parsedVariant.tokens = parsed.tokens

(***************************************************************************)
(* C12  The token list and the validity returned by parse are unchanged    *)
(* when whitespace is added before or after the input, or when the         *)
(* whitespace between segments is replaced by a longer run of spaces, tabs *)
(* and newlines.                                                           *)
(***************************************************************************)
C12_WhitespaceInsensitive ==
  (pc = "variantParsed" /\ (IsPaddedVariant \/ IsWidenedVariant))
  => /\ parsedVariant.tokens = parsed.tokens
     /\ parsedVariant.isValid = parsed.isValid
     /\ parsedVariant.exception = parsed.exception

C12_Witness ==
  /\ pc = "variantParsed"
  /\ IsWidenedVariant
  /\ \E i \in 1..Len(variant) : variant[i] = "\n"
  /\ Len(parsed.tokens) = 2
  /\ parsed.isValid
  /\ parsedVariant.tokens = parsed.tokens
  /\ parsedVariant.isValid

(***************************************************************************)
(* C13  For any input s already in normalized form (s is a result of the   *)
(* normalization step), parse(normalize(s), m) equals parse(s, m) as a     *)
(* whole ParsedInput: tokens, isValid, errors and originalInput.           *)
(* As stated it fails for a normalized s that begins with '@' (the result  *)
(* of normalizing an input with two markers): parse strips the marker that *)
(* normalize(s) has already lost, and originalInput keeps it.              *)
(***************************************************************************)
C13_NormalizedInputSameResult ==
  (pc = "variantParsed" /\ IsNormalizedVariant /\ InputIsNormalized)
  => parsedVariant = parsed

(***************************************************************************)
(* C13 (amended)  For any input s in normalized form whose first           *)
(* non-whitespace character is not '@', parse(normalize(s), m) equals      *)
(* parse(s, m) as a whole ParsedInput: tokens, isValid, errors and         *)
(* originalInput.                                                          *)
(***************************************************************************)
C13_UnmarkedNormalizedInputSameResult ==
  (/\ pc = "variantParsed"
   /\ IsNormalizedVariant
   /\ InputIsNormalized
   /\ ~FirstNonWhitespaceIsMarker(input))
  => parsedVariant = parsed

C13_Witness ==
  /\ pc = "variantParsed"
  /\ IsNormalizedVariant
  /\ InputIsNormalized
  /\ ~FirstNonWhitespaceIsMarker(input)
  /\ variant # input
  /\ Len(parsed.tokens) = 2
  /\ parsedVariant = parsed

(***************************************************************************)
(* C14  isValidFormat(input) is true if and only if the normalized input   *)
(* splits into at least one segment and every segment consists only of     *)
(* characters in [a-zA-Z0-9-]; in particular it is false for '', for       *)
(* whitespace-only input, for '@', and for any input with punctuation or   *)
(* with an '@' that is not the single leading marker.                      *)
(***************************************************************************)
C14_FormatIffKeySegments ==
  format # "unchecked" =>
    /\ (format = "valid") <=>
         /\ Len(InputSegments) >= 1
         /\ \A i \in 1..Len(InputSegments) :
              \A k \in 1..Len(InputSegments[i]) :
                InputSegments[i][k] \in TokenKeyChars
    /\ (\/ IsBlank(input)
        \/ trim(input) = <<"@">>
        \/ HasPunctuation(input)
        \/ HasNonLeadingMarker(input)) => format = "invalid"

C14_Witness ==
  /\ format = "valid"
  /\ Len(InputSegments) = 2
  /\ Head(trimStart(input)) = "@"
  /\ \E k \in 1..Len(InputSegments[1]) : InputSegments[1][k] = "-"

(***************************************************************************)
(* C21  Every ParsedInput that parse returns has at most one error, and    *)
(* isValid is true if and only if the error list is empty; the three error *)
(* conditions exclude each other: EMPTY_INPUT is reported exactly for a    *)
(* blank input, INVALID_FORMAT exactly for a non-blank input without       *)
(* segments, MISSING_BASE only for an input with segments.                 *)
(***************************************************************************)
C21_AtMostOneError ==
  ParseReturned =>
    /\ Len(parsed.errors) <= 1
    /\ parsed.isValid <=> (parsed.errors = <<>>)
    /\ \A i \in 1..Len(parsed.errors) :
         /\ parsed.errors[i].code \in
              {"EMPTY_INPUT", "INVALID_FORMAT", "MISSING_BASE"}
         /\ (parsed.errors[i].code = "EMPTY_INPUT") <=> IsBlank(input)
         /\ (parsed.errors[i].code = "INVALID_FORMAT") <=>
              (~IsBlank(input) /\ Len(InputSegments) = 0)
         /\ (parsed.errors[i].code = "MISSING_BASE") =>
              Len(InputSegments) > 0

C21_Witness ==
  /\ pc = "parsed"
  /\ ~parsed.isValid
  /\ Len(parsed.tokens) = 2
  /\ Len(parsed.errors) = 1
  /\ parsed.errors[1].code = "MISSING_BASE"

(***************************************************************************)
(* C23  The first part of the join, the base value, always has its         *)
(* trailing slashes stripped, also when it is the only part: for a         *)
(* base-only input whose mapped value ends with '/', the URL construct     *)
(* returns does not end with '/'.                                          *)
(* Fails on the code: buildFinalUrl returns a lone base as it is.          *)
(***************************************************************************)
C23_LoneBaseLosesTrailingSlash ==
  (/\ pc = "constructed"
   /\ constructed.isValid
   /\ Len(parsed.tokens) = 1)
  => /\ constructed.url = stripTrailingSlashes(parsed.tokens[1].value)
     /\ constructed.url[Len(constructed.url)] # "/"

(***************************************************************************)
(* C24  For every ParsedInput produced by parse, construct leaves exactly  *)
(* one token out of the path parts, the base at its position, so that      *)
(* there are as many parts as tokens; when the base key occurs twice only  *)
(* the first occurrence is left out and the second gives a path part.      *)
(***************************************************************************)
C24_OnlyBasePositionExcluded ==
  (pc = "constructed" /\ parsed.isValid) =>
    LET tokens == parsed.tokens
        b == FirstUrlToken(tokens)
        pathParts == [k \in 1..(Len(tokens) - 1) |->
                        tokens[IF k < b THEN k ELSE k + 1].value]
    IN /\ Len(<<tokens[b].value>> \o pathParts) = Len(tokens)
       /\ constructed.url = buildFinalUrl(<<tokens[b].value>> \o pathParts)

C24_Witness ==
  /\ pc = "constructed"
  /\ constructed.isValid
  /\ Len(parsed.tokens) = 2
  /\ parsed.tokens[1] = parsed.tokens[2]
  /\ parsed.tokens[1].isResolved
  /\ constructed.url =
       stripTrailingSlashes(parsed.tokens[1].value) \o <<"/">>
         \o parsed.tokens[2].value

(***************************************************************************)
(* C26  The validity policies of parse and construct agree: for every      *)
(* ParsedInput that parse returns with isValid true construct finds a      *)
(* base, so construct(parse(input, m), m) never returns the result         *)
(* 'No base URL token found.'.                                             *)
(***************************************************************************)
C26_PipelineAlwaysFindsBase ==
  /\ (pc = "constructed" /\ parsed.isValid) =>
       /\ FirstUrlToken(parsed.tokens) # 0
       /\ constructed.description # MsgNoBaseToken
  /\ pc = "constructed" => constructed.description # MsgNoBaseToken
  /\ (pc = "parsed" /\ parsed.isValid) =>
       construct(parsed, config).description # MsgNoBaseToken

\* parse accepted the input for a resolved base, and construct took an
\* earlier, unresolved token as the base.
C26_Witness ==
  /\ pc = "constructed"
  /\ parsed.isValid
  /\ ~parsed.tokens[FirstUrlToken(parsed.tokens)].isResolved
  /\ \E i \in 1..Len(parsed.tokens) :
       parsed.tokens[i].isResolved /\ looksLikeBaseUrl(parsed.tokens[i].value)
  /\ constructed.description # MsgNoBaseToken

\* The result 'No base URL token found.' is returned for a ParsedInput
\* built by the caller.
HandBuiltReachesNoBaseToken ==
  /\ pc = "constructed"
  /\ constructed.description = MsgNoBaseToken

(***************************************************************************)
(* C27  The format pre-check is a sound gate for parse: whenever           *)
(* isValidFormat(input) is true, parse(input, m) returns, for any mapping  *)
(* m, no EMPTY_INPUT or INVALID_FORMAT error and a non-empty token list    *)
(* with one token per segment, and the only error it can report is         *)
(* MISSING_BASE.                                                           *)
(* Fails on the code: isValidFormat accepts a prototype-named segment, on  *)
(* which parse throws.                                                     *)
(***************************************************************************)
C27_FormatGateSound ==
  (format = "valid" /\ pc # "start") =>
    /\ ParseReturned
    /\ Len(parsed.tokens) >= 1
    /\ Len(parsed.tokens) = Len(InputSegments)
    /\ \A i \in 1..Len(parsed.errors) : parsed.errors[i].code = "MISSING_BASE"

(***************************************************************************)
(* C22  A ParsedInput is a snapshot of the mapping at parse time: after    *)
(* parse has returned, adding, removing or changing keys of the mapping    *)
(* changes neither the tokens already produced nor the result of construct *)
(* on that ParsedInput, whichever mapping is passed to construct.          *)
(***************************************************************************)
C22_SnapshotAtParseTime ==
  [][(SetMappingKey \/ RemoveMappingKey) =>
       /\ parsed'.tokens = parsed.tokens
       /\ construct(parsed', config') = construct(parsed, config)]_vars

\* construct has returned a URL from tokens that the mapping, as it is now,
\* would no longer produce.
C22_Witness ==
  /\ pc = "constructed"
  /\ constructed.isValid
  /\ parse(input, config).tokens # parsed.tokens
  /\ ~parse(input, config).isValid

(***************************************************************************)
(* C25  For every entered omnibox text that does not start with 'http',    *)
(* handleInputEntered issues exactly one navigation: to the constructed    *)
(* URL when construct(parse(text)) is valid, and otherwise to the          *)
(* web-search URL for the text; the url of an invalid construct result is  *)
(* never navigated to.                                                     *)
(* Fails on the code: when parse or construct throws, the handler          *)
(* navigates nowhere.                                                      *)
(***************************************************************************)
C25_ExactlyOneNavigation ==
  (pc = "entered" /\ ~startsWith(input, <<"h","t","t","p">>)) =>
    /\ Len(navigated) = 1
    /\ navigated[1].url =
         IF constructed.exception = "none" /\ constructed.isValid
         THEN constructed.url
         ELSE searchUrl(input)

(***************************************************************************)
(* C30  When the typed text constructs a valid URL, its tokens include a   *)
(* base token and the configuration contains path tokens,                  *)
(* handleInputChanged passes to suggest, after the main suggestion, one    *)
(* more completion for each of the first (at most 3) path tokens whose     *)
(* appended form also constructs a valid URL.                              *)
(* Fails on the code: the tokens parse returns have no type, so that       *)
(* generatePartialSuggestions never finds a base token.                    *)
(***************************************************************************)
C30_PathCompletionsSuggested ==
  (/\ pc = "changed"
   /\ constructed.exception = "none"
   /\ constructed.isValid
   /\ \E i \in 1..Len(parsed.tokens) :
        /\ parsed.tokens[i].isResolved
        /\ looksLikeBaseUrl(parsed.tokens[i].value)
   /\ \E j \in 1..Len(config.tokens) : hasType(config.tokens[j], "path"))
  => LET paths == SelectSeq(config.tokens, LAMBDA t : hasType(t, "path"))
         firstPaths == SubSeq(paths, 1, IF Len(paths) < 3 THEN Len(paths)
                                        ELSE 3)
         appended(k) == input \o <<" ">> \o firstPaths[k].key
         completes(k) ==
           construct(parse(appended(k), config), config).isValid
         expected ==
           SelectSeq([k \in 1..Len(firstPaths) |-> k], LAMBDA k : completes(k))
     IN /\ Len(suggested) = 1 + Len(expected)
        /\ suggested[1].description = constructed.url
        /\ \A n \in 1..Len(expected) :
             suggested[1 + n].description =
               construct(parse(appended(expected[n]), config), config).url

(***************************************************************************)
(* C28  After any sequence of StorageManager calls, including a setToken   *)
(* made while storage holds no valid configuration, resetConfig followed   *)
(* by getConfig returns the defaults with an empty token mapping: the      *)
(* shared DEFAULT_CONFIG object is never modified by an earlier call.      *)
(* Fails on the code: getConfig returns DEFAULT_CONFIG itself when nothing *)
(* valid is stored, and setToken assigns into it.                          *)
(***************************************************************************)
C28_ResetRestoresDefaults ==
  /\ defaultConfig = DefaultConfig
  /\ (/\ Len(completed) = 2
      /\ completed[1].request.op = "resetConfig"
      /\ completed[2].request.op = "getConfig")
     => /\ completed[2].result.tokens = <<>>
        /\ completed[2].result = DefaultConfig

(***************************************************************************)
(* C29  No token update is lost under interleaving: when two calls that    *)
(* modify different keys (setToken and setToken, or setToken and           *)
(* removeToken) overlap at their await points, then once both have ended   *)
(* the stored token mapping reflects both modifications.                   *)
(* Fails on the code: each call saves the whole configuration it read.     *)
(***************************************************************************)
C29_NoLostTokenUpdate ==
  (/\ \A c \in DOMAIN calls : calls[c].at = "idle"
   /\ Len(completed) = 2
   /\ \A i \in 1..2 : completed[i].request.op \in {"setToken", "removeToken"}
   /\ \E i \in 1..2 : completed[i].request.op = "setToken"
   /\ completed[1].request.key # completed[2].request.key)
  => \A i \in 1..2 :
       LET request == completed[i].request
       IN IF request.op = "setToken"
          THEN /\ hasOwnKey(stored.tokens, request.key)
               /\ ownValue(stored.tokens, request.key) = request.value
          ELSE ~hasOwnKey(stored.tokens, request.key)

====
